---- MODULE Spec2Model ----
(***************************************************************************)
(* Model of frontier_exploration/st_exploration_episode_generator.py:      *)
(* the STEpisodeGenerator sensor (episode buffering, map deduplication,    *)
(* per-scene quota, persistence) and the ExplorationData buffer, over an   *)
(* explicit model of the directory tree the code reads and writes.         *)
(***************************************************************************)
EXTENDS Integers, Sequences, FiniteSets, TLC

VARIABLES
    pc,               \* position of the process: "active", "super" (inside
                      \* _reset, before super()._reset), "quit", or the name
                      \* of the uncaught exception that ended it
    num_episodes,     \* STEpisodeGenerator._num_episodes (config)
    exploration_data, \* STEpisodeGenerator._exploration_data
    episode,          \* BaseExplorer._episode (Optional)
    scene_id,         \* BaseExplorer._scene_id (Optional)
    top_down_map,     \* BaseExplorer.top_down_map (Optional)
    disk,             \* the directory tree under output_dir
    map_writes,       \* history: number of np.save calls per map path
    consumed,         \* history: times _reset evaluated the current buffer
    run,              \* history: number of episodes started so far
    hash_io,          \* inputs and outputs of hash_2d_binary_array calls
    disk_at_start,    \* history: the disk the running process started on
    reset_arg,        \* the episode argument of the _reset call under way
    pack_io           \* input and outputs of a packbits round trip

vars == <<pc, num_episodes, exploration_data, episode, scene_id, top_down_map,
          disk, map_writes, consumed, run, hash_io, disk_at_start,
          reset_arg, pack_io>>

(***************************************************************************)
(* Bounds of the model.                                                    *)
(***************************************************************************)
MaxSteps == 11
MaxRuns == 2
MaxQuota == 3
MaxCells == 4
MaxLen == 2
MaxPackCells == 9

(***************************************************************************)
(* Program constants and the small input sets.                             *)
(***************************************************************************)
MinEpisodeLen == 10

output_dir == "spatiotemporal_episodes"
Scenes == {"sceneA", "sceneB"}
EpisodeIds == {"0", "1"}
\* The episodes of the dataset: two in sceneA, one in sceneB.
Episodes ==
    {e \in [episode_id : EpisodeIds, scene_id : Scenes] :
        e.scene_id = "sceneA" \/ e.episode_id = "0"}

\* Optional[T]: None is the empty tuple, a set value v is <<v>>.
None == <<>>
Some(v) == <<v>>

(***************************************************************************)
(* 2D binary arrays: a shape and the rows of boolean elements.             *)
(***************************************************************************)
Arrays(h, w) == [shape : {<<h, w>>}, rows : [1..h -> [1..w -> BOOLEAN]]]
Shapes == {hw \in (1..MaxCells) \X (1..MaxCells) : hw[1] * hw[2] <= MaxCells}
AllMaps == UNION {Arrays(hw[1], hw[2]) : hw \in Shapes}

RECURSIVE flatten_rows(_, _)
flatten_rows(rows, i) ==
    IF i > Len(rows) THEN <<>> ELSE rows[i] \o flatten_rows(rows, i + 1)

\* arr.flatten(): the elements in row-major order.
flatten(arr) == flatten_rows(arr.rows, 1)

\* .tobytes() of a flat boolean array: one byte, 0 or 1, per element.
tobytes(flat) == [i \in 1..Len(flat) |-> IF flat[i] THEN 1 ELSE 0]

\* hashlib.sha256(...).hexdigest(), modelled as an injective map from byte
\* strings to strings over the digits: the bytes written out one by one.
RECURSIVE sha256_hexdigest(_)
sha256_hexdigest(bytes) ==
    IF bytes = <<>> THEN ""
    ELSE ToString(bytes[1]) \o sha256_hexdigest(Tail(bytes))

\* '_'.join(map(str, arr_shape))
RECURSIVE join_shape(_)
join_shape(shape) ==
    IF Len(shape) = 0 THEN ""
    ELSE IF Len(shape) = 1 THEN ToString(shape[1])
    ELSE ToString(shape[1]) \o "_" \o join_shape(Tail(shape))

hash_without_shape(arr) == sha256_hexdigest(tobytes(flatten(arr)))

hash_2d_binary_array(arr) ==
    sha256_hexdigest(tobytes(flatten(arr))) \o "_" \o join_shape(arr.shape)

\* np.packbits: 8 elements per byte, most significant bit first, the last
\* byte padded with zeros.
bit_at(flat, i) == IF i <= Len(flat) /\ flat[i] THEN 1 ELSE 0

pack_byte_lsb_first(flat, k) ==
    bit_at(flat, 8 * k + 1) + 2 * bit_at(flat, 8 * k + 2)
    + 4 * bit_at(flat, 8 * k + 3) + 8 * bit_at(flat, 8 * k + 4)
    + 16 * bit_at(flat, 8 * k + 5) + 32 * bit_at(flat, 8 * k + 6)
    + 64 * bit_at(flat, 8 * k + 7) + 128 * bit_at(flat, 8 * k + 8)

pack_byte(flat, k) ==
    128 * bit_at(flat, 8 * k + 1) + 64 * bit_at(flat, 8 * k + 2)
    + 32 * bit_at(flat, 8 * k + 3) + 16 * bit_at(flat, 8 * k + 4)
    + 8 * bit_at(flat, 8 * k + 5) + 4 * bit_at(flat, 8 * k + 6)
    + 2 * bit_at(flat, 8 * k + 7) + bit_at(flat, 8 * k + 8)

packbits(arr) ==
    LET flat == flatten(arr)
        n == (Len(flat) + 7) \div 8
    IN  [k \in 1..n |-> pack_byte(flat, k - 1)]

\* np.unpackbits: the 8 bits of every byte, most significant first.
unpackbits(packed) ==
    [i \in 1..(8 * Len(packed)) |->
        (packed[((i - 1) \div 8) + 1] \div (2 ^ (7 - ((i - 1) % 8)))) % 2]

\* bits[:h * w].reshape(h, w).astype(bool)
reshape(bits, shape) ==
    [shape |-> shape,
     rows |-> [r \in 1..shape[1] |->
                 [c \in 1..shape[2] |->
                    bits[(r - 1) * shape[2] + c] = 1]]]

unpack_map(packed, shape) ==
    reshape(SubSeq(unpackbits(packed), 1, shape[1] * shape[2]), shape)

(***************************************************************************)
(* The directory tree: paths are tuples of names; a disk is the set of     *)
(* directories and the contents of the files.                              *)
(***************************************************************************)
EmptyDisk == [dirs |-> {}, files |-> <<>>]

path_join(p, name) == Append(p, name)
dirname(p) == SubSeq(p, 1, Len(p) - 1)
isfile(d, p) == p \in DOMAIN d.files
path_exists(d, p) == p \in d.dirs \/ p \in DOMAIN d.files

\* os.makedirs: the directory and every missing parent.
makedirs(d, p) ==
    [d EXCEPT !.dirs = @ \cup {SubSeq(p, 1, k) : k \in 1..Len(p)}]

\* open(path, "w") / np.save / the video writer: create or overwrite.
write_file(d, p, content) ==
    [d EXCEPT !.files = [q \in (DOMAIN @) \cup {p} |->
                            IF q = p THEN content ELSE @[q]]]

\* glob.glob(os.path.join(p, "*/")): the directories directly under p.
glob_subdirs(d, p) == {q \in d.dirs : Len(q) = Len(p) + 1 /\ dirname(q) = p}

scene_dir_of(scene) == <<output_dir, scene>>
topdown_dir_of(scene) == <<output_dir, scene, "topdown_maps">>

\* The directories under a scene directory that hold episodes.
episode_dirs(d, scene) ==
    glob_subdirs(d, scene_dir_of(scene)) \ {topdown_dir_of(scene)}

\* save_map(np_arr, filepath)
save_map(d, np_arr, filepath) ==
    write_file(makedirs(d, dirname(filepath)), filepath,
               [kind |-> "npy", data |-> packbits(np_arr)])

(***************************************************************************)
(* ExplorationData: the episode buffer.                                    *)
(***************************************************************************)
\* ExplorationData.__init__
NewExplorationData ==
    [rgb_images |-> <<>>, trajectory |-> <<>>, trajectory_pixels |-> <<>>,
     ep_id |-> None, ep_scene_id |-> None, map_filename |-> None]

\* ExplorationData.__len__
data_len(data) == Len(data.rgb_images)

\* ExplorationData.set_ids; the arguments are Optional values.
set_ids(data, ep_id, ep_scene_id, map_filename) ==
    [data EXCEPT !.ep_id = ep_id, !.ep_scene_id = ep_scene_id,
                 !.map_filename = map_filename]

\* ndarray.tolist() of a 1-D array: the list of its elements.
tolist(ndarray) == ndarray.data

append_without_pixels(data, rgb_image, pose, pose_pixel) ==
    [data EXCEPT !.rgb_images = Append(@, rgb_image),
                 !.trajectory = Append(@, pose)]

\* ExplorationData.append
append(data, rgb_image, pose, pose_pixel) ==
    [data EXCEPT !.rgb_images = Append(@, rgb_image),
                 !.trajectory = Append(@, pose),
                 !.trajectory_pixels = Append(@, tolist(pose_pixel))]

record_asserts_ids_only(data) ==
    None \notin {data.ep_id, data.ep_scene_id, data.map_filename}

\* The two assert statements that open ExplorationData.record.
record_asserts(data) ==
    /\ Len(data.rgb_images) = Len(data.trajectory)
    /\ Len(data.trajectory) = Len(data.trajectory_pixels)
    /\ None \notin {data.ep_id, data.ep_scene_id, data.map_filename}

json_name(data) == data.ep_scene_id[1] \o "_" \o data.ep_id[1] \o ".json"

json_content(data) ==
    [kind |-> "json",
     data |-> [ep_id |-> data.ep_id[1],
               ep_scene_id |-> data.ep_scene_id[1],
               trajectory |-> data.trajectory,
               trajectory_pixels |-> data.trajectory_pixels,
               map_filename |-> data.map_filename[1]]]

\* images_to_video(frames, path): creates or overwrites the video file.
images_to_video(d, frames, video_path) ==
    write_file(d, video_path, [kind |-> "mp4", data |-> frames])

\* The I/O failures record can meet: opening the JSON file, encoding the
\* video. Either propagates uncaught.
Faults == {"none", "json", "video"}

\* ExplorationData.record(episode_directory): the exception raised ("none"
\* when it returns) and the disk it leaves.
record(d, data, episode_directory, fault) ==
    IF ~record_asserts(data)
    THEN [raised |-> "AssertionError", disk |-> d]
    ELSE
      LET d1 == IF ~path_exists(d, episode_directory)
                THEN makedirs(d, episode_directory) ELSE d
          json_path == path_join(episode_directory, json_name(data))
          d2 == write_file(d1, json_path, json_content(data))
          video_path == path_join(episode_directory, "video.mp4")
          d3 == images_to_video(d2, data.rgb_images, video_path)
      IN  IF fault = "json" THEN [raised |-> "OSError", disk |-> d1]
          ELSE IF fault = "video" THEN [raised |-> "OSError", disk |-> d2]
          ELSE [raised |-> "none", disk |-> d3]

(***************************************************************************)
(* STEpisodeGenerator.                                                     *)
(***************************************************************************)
is_valid_at_threshold(data) == data_len(data) >= MinEpisodeLen

is_valid_when_nonempty(data) == data_len(data) > 0

\* STEpisodeGenerator._is_last_episode_valid
is_last_episode_valid(data) == data_len(data) > MinEpisodeLen

map_is_new_never(d, map_filename) == FALSE

map_is_new_always(d, map_filename) == TRUE

\* "if not os.path.isfile(map_filename)"
map_is_new(d, map_filename) == ~isfile(d, map_filename)

quota_never_reached(num_done, quota) == FALSE

\* "if num_done >= self._num_episodes"
quota_reached_strict(num_done, quota) == num_done > quota

quota_reached(num_done, quota) == num_done >= quota

map_path(scene, arr) ==
    path_join(topdown_dir_of(scene), hash_2d_binary_array(arr) \o ".npy")

save_last_episode_record_first(d, data, ep, scene, tdm, quota, fault) ==
    LET map_filename == map_path(scene, tdm)
        data1 == set_ids(data, Some(ep.episode_id), Some(scene),
                         Some(map_filename))
        is_new == map_is_new(d, map_filename)
        d1 == IF is_new THEN save_map(d, tdm, map_filename) ELSE d
        scene_dir == scene_dir_of(scene)
        rec == record(d1, data1, path_join(scene_dir, ep.episode_id), fault)
        num_done == Cardinality(glob_subdirs(d1, scene_dir))
    IN  [outcome |-> IF rec.raised # "none" THEN rec.raised
                     ELSE IF quota_reached(num_done, quota) THEN "quit"
                     ELSE "returned",
         disk |-> rec.disk, data |-> data1,
         saved_map |-> is_new, map_filename |-> map_filename]

\* STEpisodeGenerator._save_last_episode: how it ends ("returned", "quit" or
\* the exception raised), the disk and the buffer it leaves, and whether it
\* called save_map.
save_last_episode(d, data, ep, scene, tdm, quota, fault) ==
    LET map_filename == map_path(scene, tdm)
        data1 == set_ids(data, Some(ep.episode_id), Some(scene),
                         Some(map_filename))
        is_new == map_is_new(d, map_filename)
        d1 == IF is_new THEN save_map(d, tdm, map_filename) ELSE d
        scene_dir == scene_dir_of(scene)
        episode_dir == path_join(scene_dir, ep.episode_id)
        num_done == Cardinality(glob_subdirs(d1, scene_dir))
        rec == record(d1, data1, episode_dir, fault)
    IN  IF quota_reached(num_done, quota)
        THEN [outcome |-> "quit", disk |-> d1, data |-> data1,
              saved_map |-> is_new, map_filename |-> map_filename]
        ELSE [outcome |-> IF rec.raised = "none" THEN "returned"
                          ELSE rec.raised,
              disk |-> rec.disk, data |-> data1,
              saved_map |-> is_new, map_filename |-> map_filename]

\* The maps the simulator hands out: same bytes when flattened, two shapes.
SceneMaps == {m \in AllMaps : flatten(m) = <<TRUE, FALSE>>}

\* What the simulator shows at step t of the run-th episode: the frame, the
\* pose and the pixel coordinates (a 1-D array).
observation(r, t) ==
    [rgb |-> [frame |-> <<r, t>>],
     pose |-> <<r, t>>,
     pixel |-> [shape |-> <<2>>, data |-> <<t, r>>]]

NoPack == [arr |-> None, packed |-> None, unpacked |-> None]

NoHash == [arr_a |-> None, arr_b |-> None, key_a |-> None, key_b |-> None]

\* STEpisodeGenerator.__init__ on an empty output directory.
Init ==
    /\ pc = "active"
    /\ num_episodes \in 1..MaxQuota
    /\ exploration_data = NewExplorationData
    /\ episode = None
    /\ scene_id = None
    /\ top_down_map = None
    /\ disk = EmptyDisk
    /\ map_writes = <<>>
    /\ consumed = 0
    /\ run = 0
    /\ hash_io = NoHash
    /\ disk_at_start = EmptyDisk
    /\ reset_arg = None
    /\ pack_io = NoPack

\* STEpisodeGenerator.get_observation. super().get_observation runs first; the
\* base class steps an episode only once _reset has given it one.
get_observation ==
    /\ pc = "active"
    /\ episode # None
    /\ data_len(exploration_data) < MaxSteps
    /\ LET o == observation(run, data_len(exploration_data) + 1)
       IN  exploration_data' = append(exploration_data, o.rgb, o.pose, o.pixel)
    /\ UNCHANGED <<pc, num_episodes, episode, scene_id, top_down_map, disk,
                   map_writes, consumed, run, hash_io,
                   disk_at_start, reset_arg, pack_io>>

count_write(writes, p) ==
    [q \in (DOMAIN writes) \cup {p} |->
        IF q = p THEN (IF p \in DOMAIN writes THEN writes[p] + 1 ELSE 1)
        ELSE writes[q]]

episode_to_save_argument(current, argument) == argument

\* "self._episode" in _save_last_episode: the episode the base class holds,
\* not the argument of the _reset call under way.
episode_to_save(current, argument) == current

\* STEpisodeGenerator._reset(episode), up to the call of super()._reset.
ResetEvaluate ==
    /\ pc = "active"
    /\ consumed' = consumed + 1
    /\ \E e \in Episodes :
        /\ reset_arg' = Some(e)
        /\ IF is_last_episode_valid(exploration_data)
           THEN \E fault \in Faults :
                  LET r == save_last_episode(
                             disk, exploration_data,
                             episode_to_save(episode[1], e), scene_id[1],
                             top_down_map[1], num_episodes, fault)
                  IN  /\ pc' = IF r.outcome = "returned" THEN "super"
                               ELSE r.outcome
                      /\ disk' = r.disk
                      /\ exploration_data' = r.data
                      /\ map_writes' =
                           IF r.saved_map
                           THEN count_write(map_writes, r.map_filename)
                           ELSE map_writes
           ELSE /\ pc' = "super"
                /\ UNCHANGED <<disk, exploration_data, map_writes>>
    /\ UNCHANGED <<num_episodes, episode, scene_id, top_down_map, run, hash_io,
                   disk_at_start, pack_io>>

keep_buffer(old) == [data |-> old, fresh |-> FALSE]

\* "self._exploration_data = ExplorationData()": the buffer _reset installs
\* after super()._reset, and whether it is a new instance.
alloc_buffer(old) == [data |-> NewExplorationData, fresh |-> TRUE]

\* STEpisodeGenerator._reset, from super()._reset(episode) on: the base class
\* takes the new episode, its scene and the scene's map, then the buffer is
\* replaced.
ResetFinish ==
    /\ pc = "super"
    /\ run < MaxRuns
    /\ \E m \in SceneMaps :
        /\ episode' = reset_arg
        /\ scene_id' = Some(reset_arg[1].scene_id)
        /\ top_down_map' = Some(m)
    /\ LET b == alloc_buffer(exploration_data)
       IN  /\ exploration_data' = b.data
           /\ consumed' = IF b.fresh THEN 0 ELSE consumed
    /\ run' = run + 1
    /\ pc' = "active"
    /\ reset_arg' = None
    /\ UNCHANGED <<num_episodes, disk, map_writes, hash_io,
                   disk_at_start, pack_io>>

\* The process ends (killed, quit or crashed) and a new one is started on the
\* same output directory with the same configuration.
Restart ==
    /\ pc' = "active"
    /\ exploration_data' = NewExplorationData
    /\ episode' = None
    /\ scene_id' = None
    /\ top_down_map' = None
    /\ consumed' = 0
    /\ disk_at_start' = disk
    /\ reset_arg' = None
    /\ UNCHANGED <<num_episodes, disk, map_writes, run, hash_io, pack_io>>

Next == get_observation \/ ResetEvaluate \/ ResetFinish \/ Restart

Spec == Init /\ [][Next]_vars

(***************************************************************************)
(* hash_2d_binary_array on its own: two arrays are drawn, then hashed.     *)
(***************************************************************************)
HashInit ==
    /\ pc = "active"
    /\ num_episodes = 1
    /\ exploration_data = NewExplorationData
    /\ episode = None
    /\ scene_id = None
    /\ top_down_map = None
    /\ disk = EmptyDisk
    /\ map_writes = <<>>
    /\ consumed = 0
    /\ run = 0
    /\ \E a \in AllMaps, b \in AllMaps :
         hash_io = [arr_a |-> Some(a), arr_b |-> Some(b),
                    key_a |-> None, key_b |-> None]
    /\ disk_at_start = EmptyDisk
    /\ reset_arg = None
    /\ pack_io = NoPack

HashApply ==
    /\ hash_io.key_a = None
    /\ hash_io' = [hash_io EXCEPT
                     !.key_a = Some(hash_2d_binary_array(hash_io.arr_a[1])),
                     !.key_b = Some(hash_2d_binary_array(hash_io.arr_b[1]))]
    /\ UNCHANGED <<pc, num_episodes, exploration_data, episode, scene_id,
                   top_down_map, disk, map_writes, consumed, run,
                   disk_at_start, reset_arg, pack_io>>

HashNext == HashApply

SpecHash == HashInit /\ [][HashNext]_vars

(***************************************************************************)
(* ExplorationData on its own: a buffer in any state of its fields, driven *)
(* through append, set_ids and record.                                     *)
(***************************************************************************)
DataObs == observation(1, 1)
DataPath == map_path("sceneA", CHOOSE m \in SceneMaps : TRUE)

DataBuffers ==
    {[rgb_images |-> [i \in 1..a |-> DataObs.rgb],
      trajectory |-> [i \in 1..b |-> DataObs.pose],
      trajectory_pixels |-> [i \in 1..c |-> tolist(DataObs.pixel)],
      ep_id |-> e, ep_scene_id |-> s, map_filename |-> m] :
        a \in 0..MaxLen, b \in 0..MaxLen, c \in 0..MaxLen,
        e \in {None, Some("0")}, s \in {None, Some("sceneA")},
        m \in {None, Some(DataPath)}}

DataInit ==
    /\ pc = "active"
    /\ num_episodes = 1
    /\ exploration_data \in DataBuffers
    /\ episode = None
    /\ scene_id = None
    /\ top_down_map = None
    /\ disk = EmptyDisk
    /\ map_writes = <<>>
    /\ consumed = 0
    /\ run = 0
    /\ hash_io = NoHash
    /\ disk_at_start = EmptyDisk
    /\ reset_arg = None
    /\ pack_io = NoPack

DataLive == pc \in {"active", "returned"}

DataAppend ==
    /\ DataLive
    /\ data_len(exploration_data) < MaxLen
    /\ exploration_data' =
         append(exploration_data, DataObs.rgb, DataObs.pose, DataObs.pixel)
    /\ pc' = "active"
    /\ UNCHANGED <<num_episodes, episode, scene_id, top_down_map, disk,
                   map_writes, consumed, run, hash_io,
                   disk_at_start, reset_arg, pack_io>>

DataSetIds ==
    /\ DataLive
    /\ \E e \in {None, Some("0"), Some("1")}, s \in {None, Some("sceneA")},
          m \in {None, Some(DataPath)} :
         exploration_data' = set_ids(exploration_data, e, s, m)
    /\ pc' = "active"
    /\ UNCHANGED <<num_episodes, episode, scene_id, top_down_map, disk,
                   map_writes, consumed, run, hash_io,
                   disk_at_start, reset_arg, pack_io>>

DataRecord ==
    /\ DataLive
    /\ \E ep \in EpisodeIds, fault \in Faults :
         LET r == record(disk, exploration_data,
                         path_join(scene_dir_of("sceneA"), ep), fault)
         IN  /\ pc' = IF r.raised = "none" THEN "returned" ELSE r.raised
             /\ disk' = r.disk
    /\ UNCHANGED <<num_episodes, exploration_data, episode, scene_id,
                   top_down_map, map_writes, consumed, run, hash_io,
                   disk_at_start, reset_arg, pack_io>>

DataNext == DataAppend \/ DataSetIds \/ DataRecord

SpecData == DataInit /\ [][DataNext]_vars

(***************************************************************************)
(* Properties.                                                             *)
(***************************************************************************)
\* A step of ResetEvaluate: _reset evaluates the buffer of the finished
\* episode.
BoundaryStep == consumed' = consumed + 1

NumEpisodeDirs(d, scene) == Cardinality(episode_dirs(d, scene))

Terminated == pc \in {"quit", "OSError", "AssertionError"}

\* C1: at the boundary of a valid episode in a scene that holds N episode
\* directories, the process quits when N >= num_episodes and goes on to write
\* the episode when N < num_episodes.
C1_QuotaDecision ==
    [][(BoundaryStep /\ is_last_episode_valid(exploration_data))
        => LET N == NumEpisodeDirs(disk, scene_id[1])
           IN  /\ N >= num_episodes => pc' = "quit"
               /\ N < num_episodes => pc' # "quit"]_vars

\* C2: no scene directory ever holds more episode directories than
\* num_episodes, whatever was persisted before a restart or under other
\* scenes; and the process quits only on the count of the current scene.
C2_QuotaNeverExceeded ==
    /\ \A s \in Scenes : NumEpisodeDirs(disk, s) <= num_episodes
    /\ pc = "quit" =>
         Cardinality(glob_subdirs(disk, scene_dir_of(scene_id[1])))
            >= num_episodes

C2_Witness ==
    /\ pc = "quit"
    /\ NumEpisodeDirs(disk_at_start, scene_id[1]) = 1
    /\ NumEpisodeDirs(disk, scene_id[1]) = 1
    /\ \E s \in Scenes : NumEpisodeDirs(disk, s) = 0

\* C3: the buffer evaluated at a boundary was handed to _save_last_episode
\* (its ids are set) exactly when it holds more than 10 steps.
C3_ValidityThreshold ==
    (pc = "super" \/ Terminated) =>
        (exploration_data.ep_id # None <=> data_len(exploration_data) > 10)

C3_Witness ==
    /\ pc = "super"
    /\ data_len(exploration_data) = 10
    /\ exploration_data.ep_id = None

FilesOfKind(d, kind) == {p \in DOMAIN d.files : d.files[p].kind = kind}

\* The scene directory a path lies under.
SceneOfPath(p) == p[2]

\* C4: np.save is called at most once per map path, every map file on disk
\* comes from exactly one such call, and the path a persisted episode is
\* given is the one derived from its map, which then is a file on disk.
C4_MapWrittenOnce ==
    /\ \A p \in DOMAIN map_writes : map_writes[p] <= 1
    /\ FilesOfKind(disk, "npy") = DOMAIN map_writes
    /\ ((pc = "super" \/ Terminated) /\ exploration_data.map_filename # None)
         => /\ exploration_data.map_filename[1]
                 = map_path(scene_id[1], top_down_map[1])
            /\ isfile(disk, exploration_data.map_filename[1])

\* Two episode records of one scene name the same map file, written once.
C4_Witness ==
    \E p \in FilesOfKind(disk, "json"), q \in FilesOfKind(disk, "json") :
        /\ p # q
        /\ SceneOfPath(p) = SceneOfPath(q)
        /\ disk.files[p].data.map_filename = disk.files[q].data.map_filename
        /\ map_writes[disk.files[p].data.map_filename] = 1

\* An episode directory that holds its JSON record and its video.
CompleteEpisodeDir(d, dir) ==
    /\ dir \in d.dirs
    /\ \E p \in FilesOfKind(d, "json") : dirname(p) = dir
    /\ path_join(dir, "video.mp4") \in DOMAIN d.files

\* C5: once an episode directory holds its JSON record and its video, no
\* step changes or removes a file of that directory.
C5_RecordsImmutable ==
    [][\A p \in FilesOfKind(disk, "json") \cup FilesOfKind(disk, "mp4") :
          CompleteEpisodeDir(disk, dirname(p))
            => /\ p \in DOMAIN disk'.files
               /\ disk'.files[p] = disk.files[p]]_vars

\* C6: the boundary of an episode of n > 10 steps in a scene holding fewer
\* than num_episodes episode directories (and with no I/O failure) adds
\* exactly one directory to the scene; it holds the JSON record with the n
\* poses and the n pixel coordinates in step order and the video of the n
\* frames, and the map file named by the digest exists.
C6_EndToEnd ==
    [][(/\ BoundaryStep
        /\ data_len(exploration_data) > 10
        /\ NumEpisodeDirs(disk, scene_id[1]) < num_episodes
        /\ pc' # "OSError")
        => LET sc == scene_id[1]
               n == data_len(exploration_data)
               new == episode_dirs(disk', sc) \ episode_dirs(disk, sc)
           IN  /\ Cardinality(new) = 1
               /\ \A dir \in new :
                    /\ \E p \in FilesOfKind(disk', "json") :
                         /\ dirname(p) = dir
                         /\ disk'.files[p].data.trajectory
                              = [i \in 1..n |-> observation(run, i).pose]
                         /\ disk'.files[p].data.trajectory_pixels
                              = [i \in 1..n |-> observation(run, i).pixel.data]
                    /\ isfile(disk', path_join(dir, "video.mp4"))
                    /\ disk'.files[path_join(dir, "video.mp4")].data
                         = [i \in 1..n |-> observation(run, i).rgb]
               /\ isfile(disk', map_path(sc, top_down_map[1]))]_vars

\* C7: the boundary of an episode of at most 10 steps changes nothing on
\* disk, calls neither save_map nor set_ids, does not quit, and leaves the
\* process at super()._reset.
C7_DiscardWritesNothing ==
    [][(BoundaryStep /\ data_len(exploration_data) <= 10)
        => /\ disk' = disk
           /\ map_writes' = map_writes
           /\ exploration_data' = exploration_data
           /\ pc' = "super"]_vars

\* A discarded episode with steps in it, on a disk that holds episodes.
C7_Witness ==
    /\ pc = "super"
    /\ data_len(exploration_data) \in 1..10
    /\ exploration_data.ep_id = None
    /\ \E s \in Scenes : NumEpisodeDirs(disk, s) > 0

BufferConsistent(data) ==
    /\ Len(data.rgb_images) = Len(data.trajectory)
    /\ Len(data.rgb_images) = Len(data.trajectory_pixels)
    /\ data.ep_id # None
    /\ data.ep_scene_id # None
    /\ data.map_filename # None

\* A step of DataRecord: a call of record, ending in "returned" or in the
\* exception raised.
RecordStep ==
    /\ exploration_data' = exploration_data
    /\ pc' \in {"returned", "AssertionError", "OSError"}

\* C8: record raises AssertionError exactly when the three sequences differ
\* in length or an id is unset, and then leaves the disk as it was; with
\* equal lengths and the ids set it returns unless the I/O fails, and the
\* directory then holds the JSON record and the video.
C8_RecordAssertions ==
    [][RecordStep
        => /\ pc' = "AssertionError" <=> ~BufferConsistent(exploration_data)
           /\ pc' = "AssertionError" => disk' = disk
           /\ pc' = "returned" =>
                \E dir \in disk'.dirs :
                    /\ CompleteEpisodeDir(disk', dir)
                    /\ disk'.files[path_join(dir, "video.mp4")].data
                         = exploration_data.rgb_images]_vars

\* record has raised AssertionError on a buffer whose ids are set and whose
\* sequences differ in length.
C8_Witness ==
    /\ pc = "AssertionError"
    /\ exploration_data.ep_id # None
    /\ exploration_data.ep_scene_id # None
    /\ exploration_data.map_filename # None
    /\ Len(exploration_data.trajectory) # Len(exploration_data.rgb_images)

\* The run every step of a buffer or of a record was observed in.
StepsOfRun(frames, poses, pixels, r) ==
    /\ frames = [i \in 1..Len(frames) |-> observation(r, i).rgb]
    /\ poses = [i \in 1..Len(frames) |-> observation(r, i).pose]
    /\ pixels = [i \in 1..Len(frames) |-> observation(r, i).pixel.data]

\* C9: a buffer is evaluated by at most one boundary; while an episode is
\* active the buffer has not been evaluated, has no ids and holds only steps
\* of the running episode; and every record on disk holds the steps of one
\* single episode, its video the frames of the same episode.
C9_BufferLifecycle ==
    /\ consumed <= 1
    /\ pc = "super" => consumed = 1
    /\ pc = "active" =>
         /\ consumed = 0
         /\ exploration_data.ep_id = None
         /\ exploration_data.ep_scene_id = None
         /\ exploration_data.map_filename = None
         /\ StepsOfRun(exploration_data.rgb_images,
                       exploration_data.trajectory,
                       exploration_data.trajectory_pixels, run)
    /\ \A p \in FilesOfKind(disk, "json") :
         \E r \in 1..run :
            LET n == Len(disk.files[p].data.trajectory)
            IN  /\ disk.files[p].data.trajectory
                     = [i \in 1..n |-> observation(r, i).pose]
                /\ disk.files[p].data.trajectory_pixels
                     = [i \in 1..n |-> observation(r, i).pixel.data]
    /\ \A v \in FilesOfKind(disk, "mp4") :
         \E r \in 1..run :
            disk.files[v].data
                = [i \in 1..Len(disk.files[v].data) |-> observation(r, i).rgb]

\* The second episode is running on a fresh buffer after the first was
\* flushed.
C9_Witness ==
    /\ pc = "active"
    /\ run = 2
    /\ data_len(exploration_data) > 0
    /\ \E p \in FilesOfKind(disk, "json") :
         disk.files[p].data.trajectory[1] = observation(1, 1).pose

\* C10: two arrays get the same key exactly when they have the same shape
\* and the same elements.
C10_DigestKey ==
    hash_io.key_a # None =>
        (hash_io.key_a = hash_io.key_b <=> hash_io.arr_a = hash_io.arr_b)

\* Two arrays of different shape with the same flattened bytes were hashed.
C10_Witness ==
    /\ hash_io.key_a # None
    /\ hash_io.arr_a[1].shape # hash_io.arr_b[1].shape
    /\ flatten(hash_io.arr_a[1]) = flatten(hash_io.arr_b[1])
    /\ hash_io.key_a # hash_io.key_b

(***************************************************************************)
(* The bit-packing of save_map on its own: an array is drawn, packed as    *)
(* save_map packs it, then unpacked to its shape.                          *)
(***************************************************************************)
PackShapes ==
    {hw \in (1..MaxPackCells) \X (1..MaxPackCells) :
        hw[1] * hw[2] <= MaxPackCells}
PackMaps == UNION {Arrays(hw[1], hw[2]) : hw \in PackShapes}

PackInit ==
    /\ pc = "active"
    /\ num_episodes = 1
    /\ exploration_data = NewExplorationData
    /\ episode = None
    /\ scene_id = None
    /\ top_down_map = None
    /\ disk = EmptyDisk
    /\ map_writes = <<>>
    /\ consumed = 0
    /\ run = 0
    /\ hash_io = NoHash
    /\ disk_at_start = EmptyDisk
    /\ reset_arg = None
    /\ \E a \in PackMaps :
         pack_io = [arr |-> Some(a), packed |-> None, unpacked |-> None]

PackApply ==
    /\ pack_io.arr # None
    /\ pack_io.packed = None
    /\ pack_io' = [pack_io EXCEPT !.packed = Some(packbits(pack_io.arr[1]))]
    /\ UNCHANGED <<pc, num_episodes, exploration_data, episode, scene_id,
                   top_down_map, disk, map_writes, consumed, run, hash_io,
                   disk_at_start, reset_arg>>

UnpackApply ==
    /\ pack_io.packed # None
    /\ pack_io.unpacked = None
    /\ pack_io' = [pack_io EXCEPT
                     !.unpacked = Some(unpack_map(pack_io.packed[1],
                                                  pack_io.arr[1].shape))]
    /\ UNCHANGED <<pc, num_episodes, exploration_data, episode, scene_id,
                   top_down_map, disk, map_writes, consumed, run, hash_io,
                   disk_at_start, reset_arg>>

PackNext == PackApply \/ UnpackApply

SpecPack == PackInit /\ [][PackNext]_vars

\* C11: packing an array as save_map does, then unpacking, cutting to
\* H * W bits and reshaping to (H, W) gives the array back.
C11_PackRoundTrip ==
    pack_io.unpacked # None => pack_io.unpacked = pack_io.arr

\* A 3 x 3 array (9 bits, two bytes, seven bits of padding) with its last
\* element set has made the round trip.
C11_Witness ==
    /\ pack_io.unpacked # None
    /\ pack_io.arr[1].shape = <<3, 3>>
    /\ pack_io.arr[1].rows[3][3]
    /\ Len(pack_io.packed[1]) = 2
    /\ pack_io.unpacked[1].rows[3][3]

IsPrefix(p, q) == Len(p) <= Len(q) /\ SubSeq(q, 1, Len(p)) = p

\* C12 as claimed: a boundary that ends in quit() leaves the disk exactly as
\* it found it.
C12_QuitWritesNothing ==
    [][(BoundaryStep /\ pc' = "quit") => disk' = disk]_vars

\* C12 as amended: a boundary that ends in quit() writes no episode
\* directory, no JSON and no video, and changes no file; all it may add is
\* the map file of the finished episode and the directories leading to it,
\* which save_map writes before the quota is looked at.
C12_QuitWritesNoEpisode ==
    [][(BoundaryStep /\ pc' = "quit")
        => LET mp == map_path(scene_id[1], top_down_map[1])
           IN  /\ \A s \in Scenes :
                    episode_dirs(disk', s) = episode_dirs(disk, s)
               /\ disk.dirs \subseteq disk'.dirs
               /\ \A dir \in disk'.dirs \ disk.dirs :
                    IsPrefix(dir, dirname(mp))
               /\ (DOMAIN disk'.files) \ (DOMAIN disk.files) \subseteq {mp}
               /\ \A f \in DOMAIN disk.files :
                    f \in DOMAIN disk'.files /\ disk'.files[f] = disk.files[f]
               /\ isfile(disk', mp)]_vars

\* The process has quit on a disk that holds a map file and no episode: the
\* map was written by the boundary that quit.
C12_Witness ==
    /\ pc = "quit"
    /\ FilesOfKind(disk, "npy") # {}
    /\ \A s \in Scenes : NumEpisodeDirs(disk, s) = 0

\* C13: at the boundary of a valid episode that is persisted, the record is
\* written before super()._reset runs and before the buffer is replaced, and
\* it carries the id, the scene and the map path of the episode the base
\* class held while the steps were appended, with those steps; the episode,
\* scene and map change only in a step that leaves the buffer empty.
C13_SaveBeforeSuperReset ==
    [][/\ (BoundaryStep /\ is_last_episode_valid(exploration_data)
            /\ pc' = "super")
          => LET ep == episode[1].episode_id
                 sc == scene_id[1]
                 p == path_join(path_join(scene_dir_of(sc), ep),
                                sc \o "_" \o ep \o ".json")
                 n == data_len(exploration_data)
             IN  /\ sc = episode[1].scene_id
                 /\ isfile(disk', p)
                 /\ disk'.files[p].data.ep_id = ep
                 /\ disk'.files[p].data.ep_scene_id = sc
                 /\ disk'.files[p].data.map_filename
                        = map_path(sc, top_down_map[1])
                 /\ disk'.files[p].data.trajectory
                        = [i \in 1..n |-> observation(run, i).pose]
                 /\ episode' = episode
                 /\ scene_id' = scene_id
                 /\ top_down_map' = top_down_map
                 /\ exploration_data'.rgb_images
                        = exploration_data.rgb_images
       /\ (episode' # episode \/ scene_id' # scene_id
            \/ top_down_map' # top_down_map \/ run' # run)
          => data_len(exploration_data') = 0]_vars

\* An episode was persisted under its own ids while _reset was called with
\* an episode of another id and another scene.
C13_Witness ==
    /\ pc = "super"
    /\ exploration_data.ep_id # None
    /\ reset_arg[1].episode_id # episode[1].episode_id
    /\ reset_arg[1].scene_id # scene_id[1]
    /\ exploration_data.ep_id[1] = episode[1].episode_id
    /\ exploration_data.ep_scene_id[1] = scene_id[1]
    /\ \E p \in FilesOfKind(disk, "json") :
         /\ disk.files[p].data.ep_id = episode[1].episode_id
         /\ disk.files[p].data.ep_scene_id = scene_id[1]
         /\ disk.files[p].data.trajectory[1] = observation(run, 1).pose

\* The number the quota test of _save_last_episode compares with the quota.
NumDone(d, scene) == Cardinality(glob_subdirs(d, scene_dir_of(scene)))

\* C14: the process stops itself (quit) only at the boundary of a valid
\* episode whose scene has reached the quota; a process that has quit appends
\* no step, handles no boundary and writes nothing; and once the count of the
\* current scene has reached the quota, the boundary of a valid episode of
\* that scene quits and persists no episode.
C14_TerminalStop ==
    [][/\ (pc # "quit" /\ pc' = "quit")
          => /\ BoundaryStep
             /\ is_last_episode_valid(exploration_data)
             /\ NumDone(disk', scene_id[1]) >= num_episodes
       /\ pc = "quit"
          => /\ ~BoundaryStep
             /\ disk' = disk
             /\ map_writes' = map_writes
             /\ exploration_data' \in {exploration_data, NewExplorationData}
             /\ pc' \in {"quit", "active"}
             /\ pc' = "active" => (episode' = None /\ consumed' = 0)
       /\ (/\ BoundaryStep
           /\ is_last_episode_valid(exploration_data)
           /\ NumDone(disk, scene_id[1]) >= num_episodes)
          => /\ pc' = "quit"
             /\ FilesOfKind(disk', "json") = FilesOfKind(disk, "json")
             /\ FilesOfKind(disk', "mp4") = FilesOfKind(disk, "mp4")
             /\ \A s \in Scenes :
                  episode_dirs(disk', s) = episode_dirs(disk, s)]_vars

\* The process quit at a boundary of a scene that already was at the quota
\* when the process started, with an episode persisted by an earlier process.
C14_Witness ==
    /\ pc = "quit"
    /\ data_len(exploration_data) > MinEpisodeLen
    /\ NumDone(disk_at_start, scene_id[1]) >= num_episodes
    /\ NumDone(disk_at_start, scene_id[1]) = num_episodes
    /\ NumEpisodeDirs(disk_at_start, scene_id[1]) >= 1

\* C15: under the controller the three sequences of the buffer always have
\* the same length and record never raises AssertionError; the ids are unset
\* while steps are appended, and they are set, all three at once, only on a
\* buffer that one boundary has evaluated and found valid; set_ids acts only
\* on a buffer whose ids are unset.
C15_FlushAssertionsHold ==
    LET data == exploration_data
        ids == {data.ep_id, data.ep_scene_id, data.map_filename}
    IN  /\ Len(data.rgb_images) = Len(data.trajectory)
        /\ Len(data.trajectory) = Len(data.trajectory_pixels)
        /\ pc # "AssertionError"
        /\ (ids = {None} \/ None \notin ids)
        /\ pc = "active" => ids = {None}
        /\ None \notin ids
           => /\ consumed = 1
              /\ is_last_episode_valid(data)
              /\ pc \in {"super", "quit", "OSError"}
        /\ (pc = "super" /\ is_last_episode_valid(data)) => None \notin ids

\* record was reached with a full buffer of consistent length and set ids,
\* and it returned.
C15_Witness ==
    /\ pc = "super"
    /\ Len(exploration_data.rgb_images) = MaxSteps
    /\ Len(exploration_data.trajectory_pixels) = MaxSteps
    /\ None \notin {exploration_data.ep_id, exploration_data.ep_scene_id,
                    exploration_data.map_filename}
    /\ FilesOfKind(disk, "mp4") # {}

\* Every episode JSON on disk d names a map file that exists on d under the
\* topdown_maps directory of the scene the JSON lies in.
MapsOfRecordsExist(d) ==
    \A p \in FilesOfKind(d, "json") :
        LET rec == d.files[p].data
        IN  /\ SceneOfPath(p) = rec.ep_scene_id
            /\ isfile(d, rec.map_filename)
            /\ d.files[rec.map_filename].kind = "npy"
            /\ dirname(rec.map_filename) = topdown_dir_of(rec.ep_scene_id)

\* C16: in every reachable disk state the map_filename of every persisted
\* episode JSON names a map file that exists under the same scene's
\* topdown_maps directory, and no step removes or changes a map file.
C16_RecordsReferToMaps ==
    /\ [](MapsOfRecordsExist(disk))
    /\ [][\A p \in FilesOfKind(disk, "npy") :
            isfile(disk', p) /\ disk'.files[p] = disk.files[p]]_vars

\* Two records of one scene refer to the same stored map, written once.
C16_Witness ==
    \E p, q \in FilesOfKind(disk, "json") :
        /\ p # q
        /\ disk.files[p].data.map_filename = disk.files[q].data.map_filename
        /\ isfile(disk, disk.files[p].data.map_filename)
        /\ map_writes[disk.files[p].data.map_filename] = 1

\* C17: every episode directory under a scene directory, which the quota
\* test counts, holds both its JSON record and its video, also when the JSON
\* write or the video encoding fails.
C17_CountedEpisodesComplete ==
    \A s \in Scenes :
        \A dir \in episode_dirs(disk, s) : CompleteEpisodeDir(disk, dir)

\* C18: once record has returned, the flushed buffer holds no RGB frame,
\* also while super()._reset runs, before the fresh buffer is installed.
C18_FramesReleasedAfterFlush ==
    (pc = "super" /\ exploration_data.ep_id # None)
        => exploration_data.rgb_images = <<>>

====
